---- MODULE Spec2Model ----
(***************************************************************************)
(* A model of auto_backup_file_organizer.py: organize() walks a source     *)
(* tree and moves or copies every file into                                *)
(*   <dest>/<Category>/[<date>/]<EXT or MISC>/<name>[ (N)]<ext>.           *)
(*                                                                         *)
(* A file name is kept in its parts: [base, nums, ext] stands for the text *)
(* base ++ " (n1)" ++ " (n2)" ... ++ ext, so that Path.stem is (base,nums) *)
(* and Path.suffix is ext, and f"{stem} ({i}){suffix}" appends i to nums.  *)
(* A directory is [root, parts]: parts below the source or the dest root.  *)
(* The filesystem is a function from the paths of the existing files to    *)
(* their content, and the set of the existing directories.                 *)
(***************************************************************************)
EXTENDS Integers, Sequences, FiniteSets, TLC

VARIABLES
    copy_mode, dry_run, use_date, skip_duplicates,  \* organize's flags
    source_ok,      \* source.exists() and source.is_dir()
    layout,         \* "disjoint" | "dest_in_source" (dest = source/out)
    dest_lexical,   \* the walked paths inside dest start with dest as it is spelled
    files, dirs,    \* the filesystem
    files0, dirs0,  \* the filesystem when the run started
    pc,             \* "start" | "walk" | "done" | "fatal" | "crashed"
    counts, seen_hashes,
    listed,         \* directories rglob has listed
    queue,          \* entries of the listed directory not yet yielded
    log,            \* one record per loop body executed, in order
    twin,           \* the same walk executed with dry_run = False
    summary         \* what main printed: <<>> or <<counts>>

args == <<copy_mode, dry_run, use_date, skip_duplicates, source_ok, layout, dest_lexical>>
vars == <<args, files, dirs, files0, dirs0, pc, counts, seen_hashes, listed,
          queue, log, twin, summary>>

\* The most files the source and dest trees start with, together.
MaxFiles == 2

\* The most files of one run whose digest cannot be computed.
MaxHashFailures == 1

--------------------------------------------------------------------------
(* Names, directories, paths *)

Name(b, ns, e) == [base |-> b, nums |-> ns, ext |-> e]
Dir(r, ps) == [root |-> r, parts |-> ps]
PathOf(d, n) == [dir |-> d, name |-> n]

SourceDir(ps) == Dir("source", ps)
DestDir(ps) == Dir("dest", ps)

\* dt.date.today().isoformat()
Today == "2025-10-26"

\* str.lower() on the suffixes of the model's file names.
Lower(ext) ==
    CASE ext = ".JPG" -> ".jpg"
      [] ext = ".TXT" -> ".txt"
      [] OTHER -> ext

\* ext.lstrip(".").upper() on the lowercased suffixes of the model's file names.
UpperStripped(ext) ==
    CASE ext = ".jpg" -> "JPG"
      [] ext = ".txt" -> "TXT"
      [] ext = ".xyz" -> "XYZ"
      [] OTHER -> ext

DEFAULT_CATEGORIES ==
    [e \in {".jpg", ".jpeg", ".png", ".gif", ".webp", ".tif", ".tiff", ".svg"}
        |-> "Images"] @@
    [e \in {".pdf", ".doc", ".docx", ".xls", ".xlsx", ".ppt", ".pptx", ".txt",
            ".md", ".rtf"} |-> "Documents"] @@
    [e \in {".mp3", ".wav", ".flac", ".aac"} |-> "Audio"] @@
    [e \in {".mp4", ".mov", ".avi", ".mkv", ".webm"} |-> "Video"] @@
    [e \in {".zip", ".rar", ".7z", ".tar", ".gz", ".bz2"} |-> "Archives"] @@
    [e \in {".py", ".js", ".ts", ".java", ".cpp", ".c", ".cs", ".go", ".rb",
            ".php", ".sh", ".bat", ".ps1", ".json", ".yaml", ".yml", ".xml",
            ".html", ".css"} |-> "Code"] @@
    [e \in {".dwg", ".dxf", ".rvt", ".skp", ".obj", ".fbx", ".dae"} |-> "CAD"]

\* The SHA1 hex digests of the contents 1, 2, 3 (shortened); never empty.
file_sha1(content) ==
    <<"356a192b7913b04c", "da4b9237bacccdf1", "77de68daecd823ba">>[content]

category_for(name) ==
    LET key == Lower(name.ext)
    IN  IF key \in DOMAIN DEFAULT_CATEGORIES THEN DEFAULT_CATEGORIES[key] ELSE "Other"

\* plan_rel_dir without the "MISC" folder of a file that has no extension.
plan_rel_dir_no_misc(category, date, ext) ==
    <<category>> \o (IF date THEN <<Today>> ELSE <<>>) \o <<UpperStripped(ext)>>

plan_rel_dir(category, date, ext) ==
    <<category>> \o (IF date THEN <<Today>> ELSE <<>>)
                 \o <<IF ext # "" THEN UpperStripped(ext) ELSE "MISC">>

\* base.mkdir(parents=True, exist_ok=True)
mkdir_parents(ds, rel_dir) ==
    ds \cup {DestDir(SubSeq(rel_dir, 1, k)) : k \in 0..Len(rel_dir)}

\* f"{stem} ({i}){suffix}"
Alt(name, i) == [name EXCEPT !.nums = Append(@, i)]

RECURSIVE probe(_, _, _, _)
probe(fs, base, name, i) ==
    LET alt == PathOf(base, Alt(name, i))
    IN  IF alt \notin DOMAIN fs THEN alt ELSE probe(fs, base, name, i + 1)

\* safe_destination without the probe: the wanted name, taken or not.
safe_destination_unchecked(fs, ds, rel_dir, name) ==
    [dirs |-> mkdir_parents(ds, rel_dir), path |-> PathOf(DestDir(rel_dir), name)]

\* The directories after the call, and the path returned.
safe_destination(fs, ds, rel_dir, name) ==
    LET base == DestDir(rel_dir)
        candidate == PathOf(base, name)
    IN  [dirs |-> mkdir_parents(ds, rel_dir),
         path |-> IF candidate \notin DOMAIN fs THEN candidate
                  ELSE probe(fs, base, name, 1)]

\* The files after the call (it is reached only when the copy or move succeeds).
move_or_copy(fs, src, dst, copy, dry) ==
    IF dry THEN fs
    ELSE IF copy THEN (dst :> fs[src]) @@ fs
    ELSE (dst :> fs[src]) @@ [p \in DOMAIN fs \ {src} |-> fs[p]]

\* path.relative_to(dest) does not raise: a comparison of the paths' parts as spelled.
relative_to_dest(path) == path.dir.root = "dest" /\ dest_lexical

\* try: digest = file_sha1(path) / except Exception: digest = ""
digest_of(fs, path, hashOk) == IF hashOk THEN file_sha1(fs[path]) ELSE ""

is_duplicate(seen, digest) == digest # "" /\ digest \in seen

\* record_digest that forgets the digest.
record_digest_never(seen, digest) == seen

\* record_digest that records the empty digest of a failed read too.
record_digest_always(seen, digest) == seen \cup {digest}

record_digest(seen, digest) == IF digest # "" THEN seen \cup {digest} ELSE seen

Bump(c, field) == [c EXCEPT ![field] = @ + 1]

\* The loop body of organize from "counts['processed'] += 1" on, for a walked
\* file that is not inside dest; st holds files, dirs, counts, seen_hashes, log.
LoopBody(st, path, hashOk, copy, dry, date, skipdup) ==
    LET category == category_for(path.name)
        rel_dir == plan_rel_dir(category, date, Lower(path.name.ext))
        sd == safe_destination(st.files, st.dirs, rel_dir, path.name)
        final == sd.path
        \* "-": digest is not assigned when skip_duplicates is off
        digest == IF skipdup THEN digest_of(st.files, path, hashOk) ELSE "-"
        dup == skipdup /\ is_duplicate(st.seen_hashes, digest)
        seen == IF skipdup /\ ~dup THEN record_digest(st.seen_hashes, digest)
                ELSE st.seen_hashes
        fs == IF dup THEN st.files ELSE move_or_copy(st.files, path, final, copy, dry)
        c1 == Bump(st.counts, "processed")
        c2 == IF dup THEN Bump(c1, "skipped")
              ELSE IF dry THEN c1
              ELSE IF copy THEN Bump(c1, "copied") ELSE Bump(c1, "moved")
    IN  [files |-> fs, dirs |-> sd.dirs, counts |-> c2, seen_hashes |-> seen,
         log |-> Append(st.log,
                    [path |-> path, final |-> final, digest |-> digest,
                     before |-> DOMAIN st.files,
                     outcome |-> IF dup THEN "duplicate"
                                 ELSE IF dry THEN "planned"
                                 ELSE IF copy THEN "copied" ELSE "moved",
                     placed |-> final \in DOMAIN fs /\ final \notin DOMAIN st.files])]

\* "counts['skipped'] += 1; continue" for a walked file inside dest.
SkipBody(st) == [st EXCEPT !.counts = Bump(@, "skipped")]

--------------------------------------------------------------------------
(* The trees a run starts from *)

NameA == Name("a", <<>>, ".jpg")
NameA1 == Name("a", <<1>>, ".jpg")
NameB == Name("b", <<>>, ".TXT")
NameC == Name("c", <<>>, "")
NameD == Name("d", <<>>, ".xyz")

SourcePathSeq ==
    <<PathOf(SourceDir(<<>>), NameA), PathOf(SourceDir(<<"x">>), NameA),
      PathOf(SourceDir(<<>>), NameA1), PathOf(SourceDir(<<"x">>), NameB),
      PathOf(SourceDir(<<>>), NameC), PathOf(SourceDir(<<"x">>), NameD)>>

SourcePaths == {SourcePathSeq[i] : i \in DOMAIN SourcePathSeq}

\* Contents are opaque: of the assignments that differ only by exchanging the
\* contents 1 and 2, the one giving 1 to the first file of S is kept.
Canonical(S, c) ==
    \A i \in DOMAIN SourcePathSeq :
        (SourcePathSeq[i] \in S /\ \A j \in 1..(i - 1) : SourcePathSeq[j] \notin S)
            => c[SourcePathSeq[i]] = 1

DestPaths ==
    {PathOf(DestDir(<<"Images", "JPG">>), NameA),
     PathOf(DestDir(<<"Images", "JPG">>), NameA1)}

Ancestors(d) == {Dir(d.root, SubSeq(d.parts, 1, k)) : k \in 0..Len(d.parts)}

ZeroCounts == [processed |-> 0, moved |-> 0, copied |-> 0, skipped |-> 0]

State == [files |-> files, dirs |-> dirs, counts |-> counts,
          seen_hashes |-> seen_hashes, log |-> log]

Init ==
    /\ copy_mode \in BOOLEAN /\ dry_run \in BOOLEAN
    /\ use_date \in BOOLEAN /\ skip_duplicates \in BOOLEAN
    /\ source_ok \in BOOLEAN
    /\ layout \in {"disjoint", "dest_in_source"}
    /\ dest_lexical \in BOOLEAN
    /\ layout = "disjoint" => dest_lexical
    /\ ~source_ok => layout = "disjoint"
    /\ \E S \in SUBSET SourcePaths, D \in SUBSET DestPaths :
         /\ Cardinality(S) + Cardinality(D) <= MaxFiles
         /\ ~source_ok => S = {}
         /\ \E c \in [S -> 1..2] :
              /\ Canonical(S, c)
              /\ files = c @@ [p \in D |-> 3]
         /\ dirs = UNION {Ancestors(p.dir) : p \in S \cup D}
                     \cup (IF source_ok THEN {SourceDir(<<>>)} ELSE {})
    /\ files0 = files /\ dirs0 = dirs
    /\ pc = "start"
    /\ counts = ZeroCounts /\ seen_hashes = {}
    /\ listed = {} /\ queue = {} /\ log = <<>>
    /\ twin = State
    /\ summary = <<>>

--------------------------------------------------------------------------
(* organize and main *)

\* Start without the check of source.
Start_unchecked ==
    /\ pc = "start"
    /\ pc' = "walk"
    /\ UNCHANGED <<args, files, dirs, files0, dirs0, counts, seen_hashes,
                   listed, queue, log, twin, summary>>

\* if not source.exists() or not source.is_dir(): raise SystemExit(...)
Start ==
    /\ pc = "start"
    /\ pc' = IF source_ok THEN "walk" ELSE "fatal"
    /\ UNCHANGED <<args, files, dirs, files0, dirs0, counts, seen_hashes,
                   listed, queue, log, twin, summary>>

Walkable(d) == d.root = "source" \/ layout = "dest_in_source"

FilesIn(d) == {p \in DOMAIN files : p.dir = d}

\* source.rglob("*") reaches a directory and lists it; the directories among
\* its entries are passed over by "if path.is_dir(): continue". The generator is
\* lazy: a directory is listed when the walk reaches it, in any order, so a file
\* placed under source before its directory is listed is walked too. Listing a
\* directory that holds no file yields nothing and is left out.
ListDir(d) ==
    /\ pc = "walk" /\ queue = {}
    /\ d \in dirs /\ Walkable(d) /\ d \notin listed
    /\ FilesIn(d) # {}
    /\ queue' = FilesIn(d)
    /\ listed' = listed \cup {d}
    /\ UNCHANGED <<args, files, dirs, files0, dirs0, pc, counts, seen_hashes,
                   log, twin, summary>>

Install(st) ==
    /\ files' = st.files /\ dirs' = st.dirs /\ counts' = st.counts
    /\ seen_hashes' = st.seen_hashes /\ log' = st.log

\* One iteration for a file inside dest.
SkipInsideDest(path) ==
    /\ pc = "walk" /\ path \in queue
    /\ relative_to_dest(path)
    /\ queue' = queue \ {path}
    /\ Install(SkipBody(State))
    /\ twin' = SkipBody(twin)
    /\ UNCHANGED <<args, files0, dirs0, pc, listed, summary>>

HashFailures(lg) == Cardinality({i \in DOMAIN lg : lg[i].digest = ""})

\* One iteration for any other file; file_sha1 succeeds or raises.
Process(path, hashOk) ==
    /\ pc = "walk" /\ path \in queue
    /\ ~relative_to_dest(path)
    /\ ~hashOk => skip_duplicates /\ HashFailures(log) < MaxHashFailures
    /\ queue' = queue \ {path}
    /\ Install(LoopBody(State, path, hashOk, copy_mode, dry_run, use_date,
                        skip_duplicates))
    /\ twin' = LoopBody(twin, path, hashOk, copy_mode, FALSE, use_date,
                        skip_duplicates)
    /\ UNCHANGED <<args, files0, dirs0, pc, listed, summary>>

\* The walk is exhausted: organize returns counts and main prints the summary.
\* Every directory the run started with has been listed; one created during the
\* run is listed or not, as its parent was scanned after or before.
Return ==
    /\ pc = "walk" /\ queue = {}
    /\ \A d \in dirs0 : Walkable(d) /\ d \notin listed => FilesIn(d) = {}
    /\ pc' = "done"
    /\ summary' = <<counts>>
    /\ UNCHANGED <<args, files, dirs, files0, dirs0, counts, seen_hashes,
                   listed, queue, log, twin>>

Next ==
    \/ Start
    \/ \E d \in dirs : ListDir(d)
    \/ \E path \in queue : SkipInsideDest(path)
    \/ \E path \in queue, hashOk \in BOOLEAN : Process(path, hashOk)
    \/ Return

\* Every copy and move succeeds.
Spec == Init /\ [][Next]_vars

\* shutil.copy2 or shutil.move raises in move_or_copy: the iteration has run up
\* to the call (as LoopBody does under dry, which changes no file and counts
\* neither moved nor copied), and nothing in organize or main catches it.
PlaceFails(path, hashOk) ==
    /\ pc = "walk" /\ path \in queue
    /\ ~relative_to_dest(path)
    /\ ~dry_run
    /\ ~hashOk => skip_duplicates /\ HashFailures(log) < MaxHashFailures
    /\ LET r == LoopBody(State, path, hashOk, copy_mode, TRUE, use_date,
                         skip_duplicates)
       IN  /\ r.log[Len(r.log)].outcome # "duplicate"
           /\ Install([r EXCEPT !.log[Len(r.log)].outcome = "failed"])
    /\ pc' = "crashed"
    /\ UNCHANGED <<args, files0, dirs0, queue, listed, twin, summary>>

NextFault ==
    \/ Next
    \/ \E path \in queue, hashOk \in BOOLEAN : PlaceFails(path, hashOk)

\* A copy or move may fail.
SpecFault == Init /\ [][NextFault]_vars

--------------------------------------------------------------------------
(* The claims *)

Placed == {"moved", "copied"}

SourceFiles0 == {p \in DOMAIN files0 : p.dir.root = "source"}
DestFiles0 == {p \in DOMAIN files0 : p.dir.root = "dest"}

\* name is one of wanted's numbered alternatives "wanted (k)".
IsAlt(name, wanted) ==
    /\ name.base = wanted.base /\ name.ext = wanted.ext
    /\ Len(name.nums) = Len(wanted.nums) + 1
    /\ SubSeq(name.nums, 1, Len(wanted.nums)) = wanted.nums

\* The k-th candidate for a file called name in directory d: the name itself, then
\* "name (1)", "name (2)", ...
Cand(d, name, k) == PathOf(d, IF k = 0 THEN name ELSE Alt(name, k))

\* The iterations that placed a file called name in directory d.
Placements(name, d) ==
    {i \in DOMAIN log : log[i].placed /\ log[i].path.name = name /\ log[i].final.dir = d}

\* C1: after a run that is not a dry-run, the returned counters satisfy
\* processed = moved + copied + skipped, for every layout of source and dest.
C1_CountersBalance ==
    (pc = "done" /\ ~dry_run) =>
        summary[1].processed = summary[1].moved + summary[1].copied + summary[1].skipped

\* C2: under dry_run the files and the directories are, at every step of the
\* run, those the run started with.
C2_DryRunLeavesTreesUnchanged ==
    dry_run => (files = files0 /\ dirs = dirs0)

\* C3: in a run that is not a dry-run, every file under dest when the run starts
\* is at the same path with the same content when the run ends.
C3_DestFilesUntouched ==
    (pc = "done" /\ ~dry_run) =>
        \A p \in DestFiles0 : p \in DOMAIN files /\ files[p] = files0[p]

\* C4 as stated: safe_destination never returns an existing path, and the files of
\* one name placed into one directory by a run that is not a dry-run land at
\* name, name (1), name (2), ... in that order without gaps.
C4_GaplessFromName ==
    /\ \A i \in DOMAIN log : log[i].final \notin log[i].before
    /\ ~dry_run =>
         \A i \in DOMAIN log : log[i].placed =>
            LET name == log[i].path.name
                d == log[i].final.dir
                k == Cardinality({j \in Placements(name, d) : j < i})
            IN  log[i].final = Cand(d, name, k)

\* The candidates of name in d are free when the run starts, only files called
\* name take them, and no file is processed from inside dest.
CandidatesOwn(name, d) ==
    /\ dest_lexical
    /\ \A q \in DOMAIN files0 : q.dir = d => q.name # name /\ ~IsAlt(q.name, name)
    /\ \A j \in DOMAIN log :
         (log[j].placed /\ log[j].final.dir = d /\ log[j].path.name # name)
            => log[j].final.name # name /\ ~IsAlt(log[j].final.name, name)

\* C4 as amended: safe_destination returns a path that does not exist when it is
\* called, the lowest-numbered candidate of name, name (1), name (2), ... that
\* does not; the files of one name placed into one directory land at name,
\* name (1), ... without gaps when the candidates were free at the start and no
\* file of another name takes one.
C4_LowestFreeCandidate ==
    /\ \A i \in DOMAIN log :
          LET e == log[i]
          IN  /\ e.final \notin e.before
              /\ \E k \in 0..Cardinality(e.before) :
                    /\ e.final = Cand(e.final.dir, e.path.name, k)
                    /\ \A j \in 0..(k - 1) : Cand(e.final.dir, e.path.name, j) \in e.before
    /\ ~dry_run =>
         \A i \in DOMAIN log :
            (log[i].placed /\ CandidatesOwn(log[i].path.name, log[i].final.dir)) =>
                LET name == log[i].path.name
                    d == log[i].final.dir
                    k == Cardinality({j \in Placements(name, d) : j < i})
                IN  log[i].final = Cand(d, name, k)

\* Two files of one name were placed into one directory, the second at "name (1)".
C4_Witness ==
    /\ ~dry_run /\ pc = "done"
    /\ \E i, j \in DOMAIN log :
         /\ i < j /\ log[i].placed /\ log[j].placed
         /\ log[i].path.name = log[j].path.name
         /\ log[i].final.name = log[i].path.name
         /\ log[j].final = PathOf(log[i].final.dir, Alt(log[j].path.name, 1))

\* C5 as stated: with skip_duplicates, of any two walked files of identical content
\* whose digests were computed, exactly one is placed in dest and the other is
\* counted as skipped and left unplaced.
C5_ExactlyOneOfTwoPlaced ==
    (pc = "done" /\ skip_duplicates) =>
        \A i, j \in DOMAIN log :
            (i < j /\ log[i].digest # "" /\ log[i].digest = log[j].digest) =>
                \/ log[i].placed /\ ~log[j].placed /\ log[j].outcome = "duplicate"
                \/ log[j].placed /\ ~log[i].placed /\ log[i].outcome = "duplicate"

Duplicates == {i \in DOMAIN log : log[i].outcome = "duplicate"}

\* C5 as amended: with skip_duplicates, of the walked files of one content whose
\* digests were computed, the first one visited is the only one that reaches
\* placement (it is placed in dest unless the run is a dry-run, which places
\* nothing) and every later one is counted as skipped and stays where it was.
C5_FirstOfContentPlaced ==
    skip_duplicates =>
        /\ \A j \in DOMAIN log : log[j].digest # "" =>
              IF \E i \in 1..(j - 1) : log[i].digest = log[j].digest
              THEN /\ log[j].outcome = "duplicate" /\ ~log[j].placed
                   /\ log[j].path \in DOMAIN files
              ELSE /\ log[j].outcome # "duplicate"
                   /\ log[j].placed <=> ~dry_run
        /\ counts.skipped >= Cardinality(Duplicates)
        /\ layout = "disjoint" => counts.skipped = Cardinality(Duplicates)

\* Two files of one content were hashed in a run that is not a dry-run: the first
\* was placed and the second skipped.
C5_Witness ==
    /\ skip_duplicates /\ ~dry_run /\ pc = "done"
    /\ \E i, j \in DOMAIN log :
         /\ i < j /\ log[i].path # log[j].path
         /\ log[i].digest # "" /\ log[i].digest = log[j].digest
         /\ log[i].placed /\ log[j].outcome = "duplicate"

Plans(lg) == [i \in DOMAIN lg |-> <<lg[i].path, lg[i].final>>]

\* C6 (for disjoint source and dest): a dry-run plans for every file the
\* destination a real run on the same trees gives it, and counts the same processed and
\* skipped.
C6_DryRunPlansAsRealRun ==
    (pc = "done" /\ dry_run /\ layout = "disjoint") =>
        /\ Plans(log) = Plans(twin.log)
        /\ counts.processed = twin.counts.processed
        /\ counts.skipped = twin.counts.skipped

\* C7: when source is missing or no directory, nothing is created, moved or copied,
\* no counters are returned and no summary is printed.
C7_InvalidSourceAbortsUntouched ==
    ~source_ok =>
        /\ pc \in {"start", "fatal"}
        /\ files = files0 /\ dirs = dirs0
        /\ counts = ZeroCounts /\ log = <<>>
        /\ summary = <<>>

\* organize has raised SystemExit, with files under dest.
C7_Witness == ~source_ok /\ pc = "fatal" /\ DestFiles0 # {}

\* C8: with skip_duplicates, a file whose digest fails is not skipped as a
\* duplicate and goes on to placement, the failure adds nothing to seen_hashes, a
\* file is skipped as a duplicate only for a digest that was computed for an
\* earlier file, and the run goes on.
C8_FailedDigestIsUnique ==
    skip_duplicates =>
        /\ "" \notin seen_hashes
        /\ \A i \in DOMAIN log : log[i].digest = "" =>
              /\ pc \in {"walk", "done"}
              /\ log[i].outcome \in Placed \cup {"planned"}
              /\ log[i].placed <=> ~dry_run
        /\ \A j \in Duplicates :
              /\ log[j].digest # ""
              /\ \E i \in 1..(j - 1) : log[i].digest = log[j].digest

\* A digest failed, the file was placed, and a later file was processed.
C8_Witness ==
    /\ skip_duplicates /\ ~dry_run /\ pc = "done"
    /\ \E i, j \in DOMAIN log : i < j /\ log[i].digest = "" /\ log[i].placed

\* C9: a copy or move that fails is recorded as skipped, neither moved nor copied,
\* and the run goes on to return its counters.
C9_PlacementFailureRecovered ==
    \A i \in DOMAIN log : log[i].outcome = "failed" =>
        /\ pc \in {"walk", "done"}
        /\ counts.skipped >= 1

\* Where the layout <Category>/<EXT-UPPER-OR-MISC> puts the names of the model.
ExpectedLeaf(name) ==
    CASE name.ext = ".jpg" -> <<"Images", "JPG">>
      [] name.ext = ".TXT" -> <<"Documents", "TXT">>
      [] name.ext = ".xyz" -> <<"Other", "XYZ">>
      [] name.ext = "" -> <<"Other", "MISC">>

\* C10: move mode, no date folder, no duplicate-skipping, source and dest
\* disjoint: every source file is gone from source and is, with its content, at
\* one path <Category>/<EXT-UPPER-OR-MISC>/<filename>[ (N)]<ext> of its own under
\* dest, and processed = moved = the number of source files, copied = skipped = 0.
C10_MoveRunPlacesEveryFile ==
    (pc = "done" /\ ~copy_mode /\ ~dry_run /\ ~use_date /\ ~skip_duplicates
        /\ layout = "disjoint") =>
        /\ \A p \in SourceFiles0 :
              /\ p \notin DOMAIN files
              /\ \E i \in DOMAIN log :
                    /\ log[i].path = p
                    /\ \A j \in DOMAIN log : log[j].path = p => j = i
                    /\ log[i].final \in DOMAIN files \ DOMAIN files0
                    /\ files[log[i].final] = files0[p]
                    /\ log[i].final.dir = DestDir(ExpectedLeaf(p.name))
                    /\ log[i].final.name = p.name \/ IsAlt(log[i].final.name, p.name)
        /\ \A i, j \in DOMAIN log : log[i].final = log[j].final => i = j
        /\ DOMAIN files = DestFiles0 \cup {log[i].final : i \in DOMAIN log}
        /\ Len(log) = Cardinality(SourceFiles0)
        /\ summary = <<[processed |-> Cardinality(SourceFiles0),
                        moved |-> Cardinality(SourceFiles0),
                        copied |-> 0, skipped |-> 0]>>

\* Such a run moved two files of one name, the second to "name (1)".
C10_Witness ==
    /\ pc = "done" /\ ~copy_mode /\ ~dry_run /\ ~use_date /\ ~skip_duplicates
    /\ layout = "disjoint"
    /\ \E i, j \in DOMAIN log :
         /\ i < j /\ log[i].path.name = log[j].path.name
         /\ IsAlt(log[j].final.name, log[j].path.name)

====
